---- MODULE Spec2Model ----
(***************************************************************************)
(* Model of connector_odoo/components/importer.py: the record importer     *)
(* (OdooImporter.run and its helpers) executed by concurrent job workers,  *)
(* each job in one database transaction, and the batch importers           *)
(* (BatchImporter.run with the direct and the delayed strategy).           *)
(*                                                                         *)
(* The collaborators the importer calls (backend adapter, binder, ORM      *)
(* table of bindings, advisory lock, job runner) are not part of the       *)
(* source file; they are modelled from their documented contract:          *)
(*   - a transaction sees the committed table overlaid with its own        *)
(*     writes; a commit publishes the writes, a rollback drops them;       *)
(*   - the advisory lock is owned by a transaction, re-entrant for its     *)
(*     owner and released only when the transaction ends;                  *)
(*   - binder.bind links the binding to the external id and stores the     *)
(*     current time, as a string, in sync_date.                            *)
(***************************************************************************)
EXTENDS Integers, Sequences, FiniteSets, TLC

\* ---------------------------------------------------------------- bounds
NumWorkers == 2      \* concurrent job workers (transactions)
NumIds == 2          \* external ids of the one binding model
MaxTime == 2         \* the clock runs 1..MaxTime
MaxJobs == 2         \* jobs started in one behaviour
MaxDepth == 3        \* nested run frames of one job (dependency recursion)
MaxBatch == 2        \* external ids returned by one adapter.search
MaxRetries == 1      \* executions of failed jobs again, in one behaviour

Workers == 1..NumWorkers
Ids == 1..NumIds
Times == 1..MaxTime

\* ------------------------------------------------------------- constants
None == "None"
RecordGone == "Record does no longer exist in Odoo"
AlreadyUpToDate == "Already up-to-date."
SkipReason == "skipped by _must_skip"
RetryableJobError == "RetryableJobError"
InvalidDataError == "InvalidDataError"
NothingToDoJob == "NothingToDoJob"
RecursionError == "RecursionError"

\* write_date of a raw record: the attribute may be missing, or be False
NoAttr == -1
False == 0
WriteDates == {NoAttr, False} \cup Times

\* odoo_record before the fetch (self.odoo_record = None)
NoRecord == [id |-> 0, write_date |-> NoAttr]

\* backend_adapter.read: the remote record as it is at the time of the call, or
\* IDMissingInBackend (a record with no id) when it is gone
IDMissingInBackend == [id |-> 0, write_date |-> False]
adapter_read(external_id) ==
    {IDMissingInBackend} \cup [id : {external_id}, write_date : WriteDates]

\* a dependency declared by _import_dependencies: one _import_dependency call
Dependency(external_id, always) == [external_id |-> external_id, always |-> always]

\* the declarations the model is checked with.  Record 1 depends on record 2
\* (imported when missing, or always, or after an empty external id); the
\* other records declare nothing.
Declares(ds) == [i \in Ids |-> IF i = 1 THEN ds ELSE <<>>]
DepAlways == Declares(<<Dependency(2, TRUE)>>)
DepDecls ==
    { Declares(<<Dependency(2, FALSE)>>),
      DepAlways,
      Declares(<<Dependency(0, FALSE), Dependency(2, FALSE)>>) }

\* what the _before_import override of each importer raises: by default
\* nothing (the hook of the source returns)
NoRaises == [i \in Ids |-> None]

\* no batch importer is running
NoBatch ==
    [ strategy |-> "none", pc |-> "IDLE", record_ids |-> <<>>, i |-> 1,
      calls |-> <<>>, log |-> <<>>, exc |-> None, unstarted |-> FALSE ]

VARIABLES
    now,        \* wall clock
    jobs,       \* jobs started so far
    deps,       \* id -> the dependencies its importer declares
    bindings,   \* committed binding rows: binding id -> [ext, sync, data]
    nextId,     \* the table's id sequence
    held,       \* worker -> advisory lock names its transaction holds
    txlog,      \* worker -> uncommitted rows written by its transaction
    stack,      \* worker -> frames of the running job, innermost last
    raises,     \* id -> what the _before_import override of its importer raises
    queue,      \* import jobs enqueued by with_delay and not yet started
    batch,      \* the batch importer's run
    crashed     \* runs that stopped between their write and bind

vars == <<now, jobs, deps, bindings, nextId, held, txlog, stack,
          raises, queue, batch, crashed>>

\* ------------------------------------------------------------ date strings
\* fields.Datetime values are stored as fixed-width strings; here two
\* decimal digits, most significant first.  An unset date is empty (falsy).
NoDate == <<>>
to_string(t) == <<t \div 10, t % 10>>
from_string(s) == s[1] * 10 + s[2]

\* --------------------------------------------------------------- the table
NoRows == <<>>
View(w) == txlog[w] @@ bindings

\* binder.to_internal: the bindings linked to external_id, 0 when there is none
to_internal(view, external_id) ==
    LET found == {b \in DOMAIN view : view[b].ext = external_id}
    IN  IF found = {} THEN {0} ELSE found

\* lock_name of run: "import({}, {}, {}, {})".format(backend model, backend id,
\* model name, external_id)
lock_name(external_id) == <<"import", "odoo.backend", 1, "odoo.binding", external_id>>

\* advisory_lock_or_retry succeeds when no other transaction holds the name
LockFree(w, name) == \A o \in Workers \ {w} : name \notin held[o]

\* model.create(data): a new row, not yet linked to an external id
model_create(data) == [ext |-> 0, sync |-> NoDate, data |-> data]

\* binding.write(data)
binding_write(row, data) == [row EXCEPT !.data = data]

\* binder.bind(external_id, binding): links the row and stamps sync_date
binder_bind(row, external_id, t) == [row EXCEPT !.ext = external_id, !.sync = to_string(t)]

\* ------------------------------------------------------------------ frames
NewFrame(external_id, force) ==
    [ external_id |-> external_id, force |-> force, pc |-> "FETCHING",
      odoo_record |-> NoRecord, binding |-> 0, found |-> 0,
      result |-> None, exc |-> None, skip |-> None,
      started |-> now, created |-> 0, updated |-> 0, binds |-> <<>>,
      locked |-> FALSE, dep |-> 1, nested |-> 0, steps |-> <<>> ]

Top(w) == stack[w][Len(stack[w])]
At(w, pc) == stack[w] # <<>> /\ Top(w).pc = pc
ReplaceTop(w, f) == [stack EXCEPT ![w] = [@ EXCEPT ![Len(@)] = f]]

Truthy(x) == x \notin {None, ""}

\* the calls a run has made so far, in order: <<name, argument>>
Did(f, name, arg) == [f EXCEPT !.steps = Append(@, <<name, arg>>)]

\* mutant of _is_uptodate: the comparison is not strict
_is_uptodate_NotStrict(odoo_record, view, binding) ==
    /\ odoo_record.write_date \notin {NoAttr, False}
    /\ binding # 0
    /\ view[binding].sync # NoDate
    /\ odoo_record.write_date <= from_string(view[binding].sync)

\* OdooImporter._is_uptodate: None (falsy) is rendered FALSE
_is_uptodate(odoo_record, view, binding) ==
    IF odoo_record.write_date = NoAttr \/ odoo_record.write_date = False
    THEN FALSE
    ELSE IF binding = 0
    THEN FALSE
    ELSE LET sync == view[binding].sync IN
         IF sync = NoDate
         THEN FALSE
         ELSE LET sync_date == from_string(sync)
                  odoo_date == odoo_record.write_date
              IN  odoo_date < sync_date

\* map_record.values(for_create=True) and map_record.values(): the values
\* written, by the mode they were produced in
_create_data(odoo_record) == [for_create |-> TRUE]
_update_data(odoo_record) == [for_create |-> FALSE]

\* -------------------------------------------------------------------- Init
\* a binding that was linked by hand and never synchronised
Unsynced == 1 :> [ext |-> 2, sync |-> NoDate, data |-> [for_create |-> TRUE]]

Init ==
    /\ now = 1
    /\ jobs = 0
    /\ deps = DepAlways
    /\ bindings \in {NoRows, Unsynced}
    /\ nextId = Cardinality(DOMAIN bindings) + 1
    /\ held = [w \in Workers |-> {}]
    /\ txlog = [w \in Workers |-> NoRows]
    /\ stack = [w \in Workers |-> <<>>]
    /\ raises = NoRaises
    /\ queue = <<>>
    /\ batch = NoBatch
    /\ crashed = {}

\* ------------------------------------------------------------- environment
Tick ==
    /\ now < MaxTime
    /\ now' = now + 1
    /\ UNCHANGED <<jobs, deps, bindings, nextId, held, txlog, stack, raises, queue, batch, crashed>>

\* ----------------------------------------------------------------- the run
\* a job calls run(external_id, force) in a fresh transaction
StartJob(w, external_id, force) ==
    /\ stack[w] = <<>>
    /\ jobs < MaxJobs
    /\ jobs' = jobs + 1
    /\ stack' = [stack EXCEPT ![w] = <<NewFrame(external_id, force)>>]
    /\ UNCHANGED <<now, deps, bindings, nextId, held, txlog, raises, queue, batch, crashed>>

\* self.odoo_record = self._get_odoo_data(), IDMissingInBackend caught
Fetch(w) ==
    /\ At(w, "FETCHING")
    /\ \E res \in adapter_read(Top(w).external_id) :
         LET f == Top(w) IN
         IF res # IDMissingInBackend
         THEN stack' = ReplaceTop(w, [f EXCEPT !.odoo_record = res, !.pc = "SKIP_CHECK"])
         ELSE stack' = ReplaceTop(w, [f EXCEPT !.result = RecordGone, !.pc = "DONE"])
    /\ UNCHANGED <<now, jobs, deps, bindings, nextId, held, txlog, raises, queue, batch, crashed>>

\* if self._must_skip(): return
SkipCheck(w) ==
    /\ At(w, "SKIP_CHECK")
    /\ \E reason \in {None, SkipReason} :
         LET f == [Top(w) EXCEPT !.skip = reason] IN
         IF Truthy(reason)
         THEN stack' = ReplaceTop(w, [f EXCEPT !.result = None, !.pc = "DONE"])
         ELSE stack' = ReplaceTop(w, [f EXCEPT !.pc = "UPTODATE_CHECK"])
    /\ UNCHANGED <<now, jobs, deps, bindings, nextId, held, txlog, raises, queue, batch, crashed>>

\* mutants of UptodateCheck: the force flag is not read; an up-to-date record
\* is bound again to refresh its sync_date
UptodateCheck_IgnoreForce(w) ==
    /\ At(w, "UPTODATE_CHECK")
    /\ \E b \in to_internal(View(w), Top(w).external_id) :
         LET f == [Top(w) EXCEPT !.binding = b, !.found = b] IN
         IF _is_uptodate(f.odoo_record, View(w), b)
         THEN stack' = ReplaceTop(w, [f EXCEPT !.result = AlreadyUpToDate, !.pc = "DONE"])
         ELSE stack' = ReplaceTop(w, [f EXCEPT !.pc = "LOCKING"])
    /\ UNCHANGED <<now, jobs, deps, bindings, nextId, held, txlog, raises, queue, batch, crashed>>

UptodateCheck_Rebind(w) ==
    /\ At(w, "UPTODATE_CHECK")
    /\ \E b \in to_internal(View(w), Top(w).external_id) :
         LET f == [Top(w) EXCEPT !.binding = b, !.found = b] IN
         IF ~f.force /\ _is_uptodate(f.odoo_record, View(w), b)
         THEN /\ txlog' = [txlog EXCEPT ![w] =
                     (b :> binder_bind(View(w)[b], f.external_id, now)) @@ @]
              /\ stack' = ReplaceTop(w, [f EXCEPT !.result = AlreadyUpToDate, !.pc = "DONE"])
         ELSE /\ txlog' = txlog
              /\ stack' = ReplaceTop(w, [f EXCEPT !.pc = "LOCKING"])
    /\ UNCHANGED <<now, jobs, deps, bindings, nextId, held, raises, queue, batch, crashed>>

\* binding = self._get_binding(); the up-to-date exit unless force
UptodateCheck(w) ==
    /\ At(w, "UPTODATE_CHECK")
    /\ \E b \in to_internal(View(w), Top(w).external_id) :
         LET f == [Top(w) EXCEPT !.binding = b, !.found = b] IN
         IF ~f.force /\ _is_uptodate(f.odoo_record, View(w), b)
         THEN stack' = ReplaceTop(w, [f EXCEPT !.result = AlreadyUpToDate, !.pc = "DONE"])
         ELSE stack' = ReplaceTop(w, [f EXCEPT !.pc = "LOCKING"])
    /\ UNCHANGED <<now, jobs, deps, bindings, nextId, held, txlog, raises, queue, batch, crashed>>

\* mutant of Lock: the run goes on without taking the lock
Lock_NoLock(w) ==
    /\ At(w, "LOCKING")
    /\ stack' = ReplaceTop(w, [Did(Top(w), "_before_import", 0) EXCEPT
                                    !.locked = TRUE, !.pc = "DEPENDENCIES"])
    /\ UNCHANGED <<now, jobs, deps, bindings, nextId, held, txlog, raises, queue, batch, crashed>>

\* self.advisory_lock_or_retry(lock_name); self._before_import()
Lock(w) ==
    /\ At(w, "LOCKING")
    /\ LET f == Top(w)
           name == lock_name(f.external_id)
           g == Did(Did(f, "advisory_lock_or_retry", f.external_id),
                    "_before_import", 0)
       IN  IF LockFree(w, name)
           THEN /\ held' = [held EXCEPT ![w] = @ \cup {name}]
                /\ IF raises[f.external_id] = None
                   THEN stack' = ReplaceTop(w, [g EXCEPT !.locked = TRUE,
                                                         !.pc = "DEPENDENCIES"])
                   ELSE stack' = ReplaceTop(w, [g EXCEPT !.locked = TRUE,
                                                         !.exc = raises[f.external_id],
                                                         !.pc = "DONE"])
           ELSE /\ held' = held
                /\ stack' = ReplaceTop(w, [f EXCEPT !.exc = RetryableJobError, !.pc = "DONE"])
    /\ UNCHANGED <<now, jobs, deps, bindings, nextId, txlog, raises, queue, batch, crashed>>

\* mutant of Dependencies: the nested run is forced
Dependencies_Forced(w) ==
    /\ At(w, "DEPENDENCIES")
    /\ LET f == Top(w)
           ds == deps[f.external_id]
       IN  IF f.dep > Len(ds)
           THEN stack' = ReplaceTop(w, [f EXCEPT !.pc = "MAPPING"])
           ELSE LET d == ds[f.dep] IN
                IF d.external_id = 0
                THEN stack' = ReplaceTop(w, [f EXCEPT !.dep = @ + 1])
                ELSE \E b \in to_internal(View(w), d.external_id) :
                       IF d.always \/ b = 0
                       THEN /\ Len(stack[w]) < MaxDepth
                            /\ stack' = [stack EXCEPT ![w] =
                                   Append([@ EXCEPT ![Len(@)] =
                                              [Did(f, "importer.run", d.external_id)
                                                  EXCEPT !.nested = @ + 1]],
                                          NewFrame(d.external_id, TRUE))]
                       ELSE stack' = ReplaceTop(w, [f EXCEPT !.dep = @ + 1])
    /\ UNCHANGED <<now, jobs, deps, bindings, nextId, held, txlog, raises, queue, batch, crashed>>

\* mutant of Dependencies: the binder is not asked, the dependency is imported
\* whenever its external id is not empty
Dependencies_NoLookup(w) ==
    /\ At(w, "DEPENDENCIES")
    /\ LET f == Top(w)
           ds == deps[f.external_id]
       IN  IF f.dep > Len(ds)
           THEN stack' = ReplaceTop(w, [f EXCEPT !.pc = "MAPPING"])
           ELSE LET d == ds[f.dep] IN
                IF d.external_id = 0
                THEN stack' = ReplaceTop(w, [f EXCEPT !.dep = @ + 1])
                ELSE /\ Len(stack[w]) < MaxDepth
                     /\ stack' = [stack EXCEPT ![w] =
                            Append([@ EXCEPT ![Len(@)] =
                                       [Did(f, "importer.run", d.external_id)
                                           EXCEPT !.nested = @ + 1]],
                                   NewFrame(d.external_id, FALSE))]
    /\ UNCHANGED <<now, jobs, deps, bindings, nextId, held, txlog, raises, queue, batch, crashed>>

\* self._import_dependencies(): the next _import_dependency call.  The
\* interpreter ends a recursion deeper than its limit with RecursionError.
Dependencies(w) ==
    /\ At(w, "DEPENDENCIES")
    /\ LET f == Top(w)
           ds == deps[f.external_id]
       IN  IF f.dep > Len(ds)
           THEN stack' = ReplaceTop(w, [f EXCEPT !.pc = "MAPPING"])
           ELSE LET d == ds[f.dep] IN
                IF d.external_id = 0
                THEN stack' = ReplaceTop(w, [f EXCEPT !.dep = @ + 1])
                ELSE \E b \in to_internal(View(w), d.external_id) :
                       IF d.always \/ b = 0
                       THEN IF Len(stack[w]) < MaxDepth
                            THEN stack' = [stack EXCEPT ![w] =
                                   Append([@ EXCEPT ![Len(@)] =
                                              [Did(f, "importer.run", d.external_id)
                                                  EXCEPT !.nested = @ + 1]],
                                          NewFrame(d.external_id, FALSE))]
                            ELSE stack' = ReplaceTop(w, [f EXCEPT !.exc = RecursionError,
                                                                  !.pc = "DONE"])
                       ELSE stack' = ReplaceTop(w, [f EXCEPT !.dep = @ + 1])
    /\ UNCHANGED <<now, jobs, deps, bindings, nextId, held, txlog, raises, queue, batch, crashed>>

\* how a nested run came back to _import_dependency: it did all its steps, or
\* it returned early or raised NothingToDoJob
Returned(child) ==
    IF child.exc = None /\ child.binds # <<>> THEN "run completed" ELSE "run ended"

\* mutants of Return: every exception of the nested run is propagated; every
\* exception of the nested run is swallowed
Return_PropagateAll(w) ==
    /\ Len(stack[w]) > 1
    /\ Top(w).pc = "DONE"
    /\ LET child == Top(w)
           rest == SubSeq(stack[w], 1, Len(stack[w]) - 1)
           parent == rest[Len(rest)]
       IN  IF child.exc = None
           THEN stack' = [stack EXCEPT ![w] =
                    [rest EXCEPT ![Len(rest)] =
                        [Did(parent, Returned(child), child.external_id)
                            EXCEPT !.dep = @ + 1]]]
           ELSE stack' = [stack EXCEPT ![w] =
                    [rest EXCEPT ![Len(rest)] =
                        [parent EXCEPT !.exc = child.exc, !.pc = "DONE"]]]
    /\ UNCHANGED <<now, jobs, deps, bindings, nextId, held, txlog, raises, queue, batch, crashed>>

Return_SwallowAll(w) ==
    /\ Len(stack[w]) > 1
    /\ Top(w).pc = "DONE"
    /\ LET child == Top(w)
           rest == SubSeq(stack[w], 1, Len(stack[w]) - 1)
           parent == rest[Len(rest)]
       IN  stack' = [stack EXCEPT ![w] =
                    [rest EXCEPT ![Len(rest)] =
                        [Did(parent, Returned(child), child.external_id)
                            EXCEPT !.dep = @ + 1]]]
    /\ UNCHANGED <<now, jobs, deps, bindings, nextId, held, txlog, raises, queue, batch, crashed>>

\* importer.run returned or raised inside _import_dependency
Return(w) ==
    /\ Len(stack[w]) > 1
    /\ Top(w).pc = "DONE"
    /\ LET child == Top(w)
           rest == SubSeq(stack[w], 1, Len(stack[w]) - 1)
           parent == rest[Len(rest)]
       IN  IF child.exc \in {None, NothingToDoJob}
           THEN stack' = [stack EXCEPT ![w] =
                    [rest EXCEPT ![Len(rest)] =
                        [Did(parent, Returned(child), child.external_id)
                            EXCEPT !.dep = @ + 1]]]
           ELSE stack' = [stack EXCEPT ![w] =
                    [rest EXCEPT ![Len(rest)] =
                        [parent EXCEPT !.exc = child.exc, !.pc = "DONE"]]]
    /\ UNCHANGED <<now, jobs, deps, bindings, nextId, held, txlog, raises, queue, batch, crashed>>

\* mutant of Persist: the values are written first and validated afterwards
Persist_ValidateLate(w) ==
    /\ At(w, "MAPPING")
    /\ \E valid \in BOOLEAN :
         LET f == Top(w)
             m == Did(f, "_map_data", 0)
             b == IF f.binding # 0 THEN f.binding ELSE nextId
             row == IF f.binding # 0
                    THEN binding_write(View(w)[f.binding], _update_data(f.odoo_record))
                    ELSE model_create(_create_data(f.odoo_record))
             g == IF f.binding # 0
                  THEN [Did(m, "binding.write", b) EXCEPT !.updated = @ + 1]
                  ELSE [Did(m, "model.create", b) EXCEPT !.created = @ + 1, !.binding = b]
         IN  /\ txlog' = [txlog EXCEPT ![w] = (b :> row) @@ @]
             /\ nextId' = IF f.binding # 0 THEN nextId ELSE nextId + 1
             /\ IF valid
                THEN stack' = ReplaceTop(w, [Did(g, "_validate_data", 0) EXCEPT
                                                !.pc = "BINDING"])
                ELSE stack' = ReplaceTop(w, [Did(g, "_validate_data", 0) EXCEPT
                                                !.exc = InvalidDataError, !.pc = "DONE"])
    /\ UNCHANGED <<now, jobs, deps, bindings, held, raises, queue, batch, crashed>>

\* mutant of Persist: the binding found by the lookup is not looked at
Persist_AlwaysCreate(w) ==
    /\ At(w, "MAPPING")
    /\ \E valid \in BOOLEAN :
         LET f == Top(w)
             m == Did(f, "_map_data", 0)
         IN  IF ~valid
             THEN /\ stack' = ReplaceTop(w, [Did(m, "_validate_data", 0) EXCEPT
                                                 !.exc = InvalidDataError, !.pc = "DONE"])
                  /\ UNCHANGED <<txlog, nextId>>
             ELSE /\ txlog' = [txlog EXCEPT ![w] =
                         (nextId :> model_create(_create_data(f.odoo_record))) @@ @]
                  /\ nextId' = nextId + 1
                  /\ stack' = ReplaceTop(w,
                         [Did(Did(m, "_validate_data", 0), "model.create", nextId)
                             EXCEPT !.binding = nextId,
                                    !.created = @ + 1, !.pc = "BINDING"])
    /\ UNCHANGED <<now, jobs, deps, bindings, held, raises, queue, batch, crashed>>

\* map_record = self._map_data(); then _update or _create, each validating first
Persist(w) ==
    /\ At(w, "MAPPING")
    /\ \E valid \in BOOLEAN :
         LET f == Top(w)
             m == Did(f, "_map_data", 0)
         IN  IF ~valid
             THEN /\ stack' = ReplaceTop(w, [Did(m, "_validate_data", 0) EXCEPT
                                                 !.exc = InvalidDataError, !.pc = "DONE"])
                  /\ UNCHANGED <<txlog, nextId>>
             ELSE IF f.binding # 0
             THEN /\ txlog' = [txlog EXCEPT ![w] =
                         (f.binding :> binding_write(View(w)[f.binding],
                                                    _update_data(f.odoo_record))) @@ @]
                  /\ stack' = ReplaceTop(w,
                         [Did(Did(m, "_validate_data", 0), "binding.write", f.binding)
                             EXCEPT !.updated = @ + 1, !.pc = "BINDING"])
                  /\ UNCHANGED nextId
             ELSE /\ txlog' = [txlog EXCEPT ![w] =
                         (nextId :> model_create(_create_data(f.odoo_record))) @@ @]
                  /\ nextId' = nextId + 1
                  /\ stack' = ReplaceTop(w,
                         [Did(Did(m, "_validate_data", 0), "model.create", nextId)
                             EXCEPT !.binding = nextId,
                                    !.created = @ + 1, !.pc = "BINDING"])
    /\ UNCHANGED <<now, jobs, deps, bindings, held, raises, queue, batch, crashed>>

\* mutant of Bind: the post-import hook is called before bind
Bind_HookFirst(w) ==
    /\ At(w, "BINDING")
    /\ LET f == Top(w) IN
       /\ txlog' = [txlog EXCEPT ![w] =
              (f.binding :> binder_bind(View(w)[f.binding], f.external_id, now)) @@ @]
       /\ stack' = ReplaceTop(w,
              [Did(Did(f, "_after_import", f.binding), "binder.bind", f.binding)
                  EXCEPT !.binds = Append(@, <<f.external_id, f.binding>>),
                         !.result = None, !.pc = "DONE"])
    /\ UNCHANGED <<now, jobs, deps, bindings, nextId, held, raises, queue, batch, crashed>>

\* mutant of Bind: bind is called for a created binding only
Bind_OnlyCreated(w) ==
    /\ At(w, "BINDING")
    /\ LET f == Top(w) IN
       IF f.created = 1
       THEN /\ txlog' = [txlog EXCEPT ![w] =
                   (f.binding :> binder_bind(View(w)[f.binding], f.external_id, now)) @@ @]
            /\ stack' = ReplaceTop(w, [f EXCEPT !.binds = Append(@, <<f.external_id, f.binding>>),
                                                !.result = None, !.pc = "DONE"])
       ELSE /\ txlog' = txlog
            /\ stack' = ReplaceTop(w, [f EXCEPT !.result = None, !.pc = "DONE"])
    /\ UNCHANGED <<now, jobs, deps, bindings, nextId, held, raises, queue, batch, crashed>>

\* self.binder.bind(self.external_id, binding); self._after_import(binding)
Bind(w) ==
    /\ At(w, "BINDING")
    /\ LET f == Top(w) IN
       /\ txlog' = [txlog EXCEPT ![w] =
              (f.binding :> binder_bind(View(w)[f.binding], f.external_id, now)) @@ @]
       /\ stack' = ReplaceTop(w,
              [Did(Did(f, "binder.bind", f.binding), "_after_import", f.binding)
                  EXCEPT !.binds = Append(@, <<f.external_id, f.binding>>),
                         !.result = None, !.pc = "DONE"])
    /\ UNCHANGED <<now, jobs, deps, bindings, nextId, held, raises, queue, batch, crashed>>

\* ------------------------------------------------------- end of transaction
Commit(w) ==
    /\ Len(stack[w]) = 1
    /\ Top(w).pc = "DONE"
    /\ Top(w).exc = None
    /\ bindings' = txlog[w] @@ bindings
    /\ txlog' = [txlog EXCEPT ![w] = NoRows]
    /\ held' = [held EXCEPT ![w] = {}]
    /\ stack' = [stack EXCEPT ![w] = <<>>]
    /\ UNCHANGED <<now, jobs, deps, nextId, raises, queue, batch, crashed>>

Rollback(w) ==
    /\ Len(stack[w]) = 1
    /\ Top(w).pc = "DONE"
    /\ Top(w).exc # None
    /\ txlog' = [txlog EXCEPT ![w] = NoRows]
    /\ held' = [held EXCEPT ![w] = {}]
    /\ stack' = [stack EXCEPT ![w] = <<>>]
    /\ UNCHANGED <<now, jobs, deps, bindings, nextId, raises, queue, batch, crashed>>

Next ==
    \/ Tick
    \/ \E w \in Workers, id \in Ids, force \in BOOLEAN : StartJob(w, id, force)
    \/ \E w \in Workers : Fetch(w)
    \/ \E w \in Workers : SkipCheck(w)
    \/ \E w \in Workers : UptodateCheck(w)
    \/ \E w \in Workers : Lock(w)
    \/ \E w \in Workers : Dependencies(w)
    \/ \E w \in Workers : Return(w)
    \/ \E w \in Workers : Persist(w)
    \/ \E w \in Workers : Bind(w)
    \/ \E w \in Workers : Commit(w)
    \/ \E w \in Workers : Rollback(w)

Spec == Init /\ [][Next]_vars

\* One worker, its jobs one after the other, under every declaration.

InitSerial ==
    /\ now = 1
    /\ jobs = 0
    /\ deps \in DepDecls
    /\ bindings \in {NoRows, Unsynced}
    /\ nextId = Cardinality(DOMAIN bindings) + 1
    /\ held = [w \in Workers |-> {}]
    /\ txlog = [w \in Workers |-> NoRows]
    /\ stack = [w \in Workers |-> <<>>]
    /\ raises = NoRaises
    /\ queue = <<>>
    /\ batch = NoBatch
    /\ crashed = {}

NextSerial ==
    \/ Tick
    \/ \E id \in Ids, force \in BOOLEAN : StartJob(1, id, force)
    \/ Fetch(1)
    \/ SkipCheck(1)
    \/ UptodateCheck(1)
    \/ Lock(1)
    \/ Dependencies(1)
    \/ Return(1)
    \/ Persist(1)
    \/ Bind(1)
    \/ Commit(1)
    \/ Rollback(1)

SpecSerial == InitSerial /\ [][NextSerial]_vars

\* One worker; record 1 declares the same dependency twice, or an empty
\* external id before and after it.
DepTwice == Declares(<<Dependency(2, FALSE), Dependency(2, FALSE)>>)
DepEmpty == Declares(<<Dependency(0, FALSE), Dependency(2, FALSE), Dependency(0, TRUE)>>)

InitTwice ==
    /\ now = 1
    /\ jobs = 0
    /\ deps \in {DepTwice, DepEmpty}
    /\ bindings \in {NoRows, Unsynced}
    /\ nextId = Cardinality(DOMAIN bindings) + 1
    /\ held = [w \in Workers |-> {}]
    /\ txlog = [w \in Workers |-> NoRows]
    /\ stack = [w \in Workers |-> <<>>]
    /\ raises = NoRaises
    /\ queue = <<>>
    /\ batch = NoBatch
    /\ crashed = {}

SpecTwice == InitTwice /\ [][NextSerial]_vars

\* One worker, no dependencies; a run may stop between its write and bind
\* (the process dies, or bind raises) with the write kept.
NoDeps == Declares(<<>>)

\* a binding synchronised at time 1
Synced == 1 :> [ext |-> 2, sync |-> to_string(1), data |-> [for_create |-> TRUE]]

InitCrash ==
    /\ now = 1
    /\ jobs = 0
    /\ deps = NoDeps
    /\ bindings \in {NoRows, Unsynced, Synced}
    /\ nextId = Cardinality(DOMAIN bindings) + 1
    /\ held = [w \in Workers |-> {}]
    /\ txlog = [w \in Workers |-> NoRows]
    /\ stack = [w \in Workers |-> <<>>]
    /\ raises = NoRaises
    /\ queue = <<>>
    /\ batch = NoBatch
    /\ crashed = {}

\* the run stops after _create or _update and before binder.bind; what it
\* wrote stays in the table
Crash(w) ==
    /\ Len(stack[w]) = 1
    /\ At(w, "BINDING")
    /\ bindings' = txlog[w] @@ bindings
    /\ crashed' = crashed \cup
           {[ external_id |-> Top(w).external_id, binding |-> Top(w).binding,
              force |-> Top(w).force, write_date |-> Top(w).odoo_record.write_date,
              created |-> Top(w).created = 1 ]}
    /\ txlog' = [txlog EXCEPT ![w] = NoRows]
    /\ held' = [held EXCEPT ![w] = {}]
    /\ stack' = [stack EXCEPT ![w] = <<>>]
    /\ UNCHANGED <<now, jobs, deps, nextId, raises, queue, batch>>

NextCrash ==
    \/ Tick
    \/ \E id \in Ids, force \in BOOLEAN : StartJob(1, id, force)
    \/ Fetch(1)
    \/ SkipCheck(1)
    \/ UptodateCheck(1)
    \/ Lock(1)
    \/ Dependencies(1)
    \/ Persist(1)
    \/ Bind(1)
    \/ Crash(1)
    \/ Commit(1)
    \/ Rollback(1)

SpecCrash == InitCrash /\ [][NextCrash]_vars

\* One worker; records 1 and 2 declare each other as dependencies, imported
\* when unbound.  A job that has started goes on until it ends.
DepMutual ==
    [i \in Ids |->
        IF i = 1 THEN <<Dependency(2, FALSE)>>
        ELSE IF i = 2 THEN <<Dependency(1, FALSE)>> ELSE <<>>]

InitMutual ==
    /\ now = 1
    /\ jobs = 0
    /\ deps = DepMutual
    /\ bindings \in {NoRows, Unsynced}
    /\ nextId = Cardinality(DOMAIN bindings) + 1
    /\ held = [w \in Workers |-> {}]
    /\ txlog = [w \in Workers |-> NoRows]
    /\ stack = [w \in Workers |-> <<>>]
    /\ raises = NoRaises
    /\ queue = <<>>
    /\ batch = NoBatch
    /\ crashed = {}

SpecMutual == InitMutual /\ [][NextSerial]_vars /\ WF_vars(NextSerial)

\* Two workers and one more record: record 1 declares records 2 and Last as
\* dependencies, imported when unbound; the jobs import record 1 and record
\* Last.  The _before_import override of record 2 may raise NothingToDoJob.
\* A job that failed with the retry signal is executed again by the job runner.
Last == NumIds + 1
NestedIds == 1..Last
DepTwo ==
    [i \in NestedIds |->
        IF i = 1 THEN <<Dependency(2, FALSE), Dependency(Last, FALSE)>> ELSE <<>>]
RaisesNothingToDo == [i \in NestedIds |-> IF i = 2 THEN NothingToDoJob ELSE None]

InitNested ==
    /\ now = 1
    /\ jobs = 0
    /\ deps = DepTwo
    /\ bindings = NoRows
    /\ nextId = 1
    /\ held = [w \in Workers |-> {}]
    /\ txlog = [w \in Workers |-> NoRows]
    /\ stack = [w \in Workers |-> <<>>]
    /\ raises \in {[i \in NestedIds |-> None], RaisesNothingToDo}
    /\ queue = <<>>
    /\ batch = NoBatch
    /\ crashed = {}

\* the job runner executes a job that raised RetryableJobError again, in a
\* new transaction: the failed one is rolled back
Retry(w) ==
    /\ Len(stack[w]) = 1
    /\ Top(w).pc = "DONE"
    /\ Top(w).exc = RetryableJobError
    /\ jobs < MaxJobs + MaxRetries
    /\ jobs' = jobs + 1
    /\ txlog' = [txlog EXCEPT ![w] = NoRows]
    /\ held' = [held EXCEPT ![w] = {}]
    /\ stack' = [stack EXCEPT ![w] = <<NewFrame(Top(w).external_id, Top(w).force)>>]
    /\ UNCHANGED <<now, deps, bindings, nextId, raises, queue, batch, crashed>>

NextNested ==
    \/ \E w \in Workers, id \in {1, Last} : StartJob(w, id, FALSE)
    \/ \E w \in Workers : Fetch(w)
    \/ \E w \in Workers : SkipCheck(w)
    \/ \E w \in Workers : UptodateCheck(w)
    \/ \E w \in Workers : Lock(w)
    \/ \E w \in Workers : Dependencies(w)
    \/ \E w \in Workers : Return(w)
    \/ \E w \in Workers : Persist(w)
    \/ \E w \in Workers : Bind(w)
    \/ \E w \in Workers : Commit(w)
    \/ \E w \in Workers : Rollback(w)
    \/ \E w \in Workers : Retry(w)

SpecNested == InitNested /\ [][NextNested]_vars

\* ------------------------------------------------------- batch importers
\* BatchImporter.run(filters) with _import_record of DirectBatchImporter or of
\* DelayedBatchImporter.  A direct import runs in the batch's own process and
\* transaction (those of BatchWorker); a delayed import is a job handed to
\* the job runner, started later by any worker.
BatchWorker == 1

\* adapter.search(filters): any sequence of external ids
adapter_search == UNION {[1..n -> Ids] : n \in 0..MaxBatch}

InitBatch ==
    /\ now = 1
    /\ jobs = 0
    /\ deps = NoDeps
    /\ bindings = NoRows
    /\ nextId = 1
    /\ held = [w \in Workers |-> {}]
    /\ txlog = [w \in Workers |-> NoRows]
    /\ stack = [w \in Workers |-> <<>>]
    /\ raises = NoRaises
    /\ queue = <<>>
    /\ batch \in {[NoBatch EXCEPT !.strategy = st, !.pc = "SEARCH"] :
                    st \in {"direct", "delayed"}}
    /\ crashed = {}

\* record_ids = self.backend_adapter.search(filters)
Search ==
    /\ batch.pc = "SEARCH"
    /\ \E record_ids \in adapter_search :
         batch' = [batch EXCEPT !.record_ids = record_ids, !.pc = "LOOP"]
    /\ UNCHANGED <<now, jobs, deps, bindings, nextId, held, txlog, stack,
                   raises, queue, crashed>>

\* mutant of ImportRecordDirect: the ids are taken from the end of the list
ImportRecordDirect_Reversed ==
    /\ batch.strategy = "direct"
    /\ batch.pc = "LOOP"
    /\ batch.i <= Len(batch.record_ids)
    /\ LET record_id == batch.record_ids[Len(batch.record_ids) + 1 - batch.i] IN
       /\ batch' = [batch EXCEPT !.calls = Append(@, record_id),
                                 !.log = Append(@, <<"start", record_id>>),
                                 !.pc = "IMPORTING"]
       /\ stack' = [stack EXCEPT ![BatchWorker] = <<NewFrame(record_id, FALSE)>>]
    /\ UNCHANGED <<now, jobs, deps, bindings, nextId, held, txlog,
                   raises, queue, crashed>>

\* for record_id in record_ids: self._import_record(record_id), direct:
\* self.model.import_record(self.backend_record, external_id) starts the
\* record importer's run in this process
ImportRecordDirect ==
    /\ batch.strategy = "direct"
    /\ batch.pc = "LOOP"
    /\ batch.i <= Len(batch.record_ids)
    /\ LET record_id == batch.record_ids[batch.i] IN
       /\ batch' = [batch EXCEPT !.calls = Append(@, record_id),
                                 !.log = Append(@, <<"start", record_id>>),
                                 !.pc = "IMPORTING"]
       /\ stack' = [stack EXCEPT ![BatchWorker] = <<NewFrame(record_id, FALSE)>>]
    /\ UNCHANGED <<now, jobs, deps, bindings, nextId, held, txlog,
                   raises, queue, crashed>>

\* import_record returns to the loop, or raises out of BatchImporter.run
ImportRecordReturns ==
    /\ batch.pc = "IMPORTING"
    /\ Len(stack[BatchWorker]) = 1
    /\ Top(BatchWorker).pc = "DONE"
    /\ stack' = [stack EXCEPT ![BatchWorker] = <<>>]
    /\ IF Top(BatchWorker).exc = None
       THEN batch' = [batch EXCEPT
                        !.log = Append(@, <<"end", Top(BatchWorker).external_id>>),
                        !.i = @ + 1, !.pc = "LOOP"]
       ELSE batch' = [batch EXCEPT !.exc = Top(BatchWorker).exc, !.pc = "DONE"]
    /\ UNCHANGED <<now, jobs, deps, bindings, nextId, held, txlog,
                   raises, queue, crashed>>

\* mutant of ImportRecordDelayed: two jobs are enqueued for the id
ImportRecordDelayed_Twice ==
    /\ batch.strategy = "delayed"
    /\ batch.pc = "LOOP"
    /\ batch.i <= Len(batch.record_ids)
    /\ LET record_id == batch.record_ids[batch.i] IN
       /\ batch' = [batch EXCEPT !.calls = Append(@, record_id), !.i = @ + 1]
       /\ queue' = Append(Append(queue, record_id), record_id)
    /\ UNCHANGED <<now, jobs, deps, bindings, nextId, held, txlog, stack,
                   raises, crashed>>

\* for record_id in record_ids: self._import_record(record_id), delayed:
\* self.model.with_delay(...).import_record(self.backend_record, external_id)
\* enqueues a job and returns
ImportRecordDelayed ==
    /\ batch.strategy = "delayed"
    /\ batch.pc = "LOOP"
    /\ batch.i <= Len(batch.record_ids)
    /\ LET record_id == batch.record_ids[batch.i] IN
       /\ batch' = [batch EXCEPT !.calls = Append(@, record_id), !.i = @ + 1]
       /\ queue' = Append(queue, record_id)
    /\ UNCHANGED <<now, jobs, deps, bindings, nextId, held, txlog, stack,
                   raises, crashed>>

\* the loop is over: BatchImporter.run returns.  unstarted notes whether any
\* enqueued import had started by then.
BatchReturns ==
    /\ batch.pc = "LOOP"
    /\ batch.i > Len(batch.record_ids)
    /\ batch' = [batch EXCEPT !.pc = "DONE", !.unstarted = (jobs = 0)]
    /\ UNCHANGED <<now, jobs, deps, bindings, nextId, held, txlog, stack,
                   raises, queue, crashed>>

\* the batch's transaction ends: commit when run returned, rollback when it
\* raised.  Under the delayed strategy the batch itself wrote nothing.
BatchEnd ==
    /\ batch.pc = "DONE"
    /\ batch' = [batch EXCEPT !.pc = "ENDED"]
    /\ IF batch.strategy = "direct"
       THEN /\ bindings' = IF batch.exc = None
                           THEN txlog[BatchWorker] @@ bindings
                           ELSE bindings
            /\ txlog' = [txlog EXCEPT ![BatchWorker] = NoRows]
            /\ held' = [held EXCEPT ![BatchWorker] = {}]
       ELSE UNCHANGED <<bindings, txlog, held>>
    /\ UNCHANGED <<now, jobs, deps, nextId, stack, raises, queue, crashed>>

\* a worker of the job runner starts one of the enqueued jobs, whichever
StartQueued(w) ==
    /\ stack[w] = <<>>
    /\ \E k \in 1..Len(queue) :
         /\ stack' = [stack EXCEPT ![w] = <<NewFrame(queue[k], FALSE)>>]
         /\ queue' = SubSeq(queue, 1, k - 1) \o SubSeq(queue, k + 1, Len(queue))
    /\ jobs' = jobs + 1
    /\ UNCHANGED <<now, deps, bindings, nextId, held, txlog, raises, batch, crashed>>

\* the transaction of a delayed job ends
JobCommit(w) == batch.strategy = "delayed" /\ Commit(w)
JobRollback(w) == batch.strategy = "delayed" /\ Rollback(w)

NextBatch ==
    \/ Search
    \/ ImportRecordDirect
    \/ ImportRecordReturns
    \/ ImportRecordDelayed
    \/ BatchReturns
    \/ BatchEnd
    \/ \E w \in Workers : StartQueued(w)
    \/ \E w \in Workers : Fetch(w)
    \/ \E w \in Workers : SkipCheck(w)
    \/ \E w \in Workers : UptodateCheck(w)
    \/ \E w \in Workers : Lock(w)
    \/ \E w \in Workers : Dependencies(w)
    \/ \E w \in Workers : Persist(w)
    \/ \E w \in Workers : Bind(w)
    \/ \E w \in Workers : JobCommit(w)
    \/ \E w \in Workers : JobRollback(w)

SpecBatch == InitBatch /\ [][NextBatch]_vars

\* ------------------------------------------------------------ run outcomes
\* the run of frame f returned at one of its three early exits
EndedEarly(f) ==
    /\ f.pc = "DONE"
    /\ f.exc = None
    /\ (f.result \in {RecordGone, AlreadyUpToDate} \/ Truthy(f.skip))

\* the run of frame f returned from its last line
Completed(f) == f.pc = "DONE" /\ f.exc = None /\ ~EndedEarly(f)

\* the bindings a transaction sees linked to external_id
Linked(view, external_id) == {b \in DOMAIN view : view[b].ext = external_id}

\* ------------------------------------------------------------------ claims

\* C1: in every reachable state at most one Binding exists per (backend,
\* model, external_id), whatever the interleaving of the runs.
C1_AtMostOneBinding ==
    \A e \in Ids : Cardinality(Linked(bindings, e)) <= 1

\* the locking step of worker w while another transaction has a run past
\* the locking step for the same key
C2_Refused(w) ==
    (/\ At(w, "LOCKING")
     /\ stack'[w] # stack[w]
     /\ \E o \in Workers \ {w} : \E j \in 1..Len(stack[o]) :
           stack[o][j].locked /\ stack[o][j].external_id = Top(w).external_id) =>
        /\ Top(w)'.pc = "DONE"
        /\ Top(w)'.exc = RetryableJobError
        /\ Len(stack'[w]) = Len(stack[w])

\* C2: two runs of different transactions are never both past the locking
\* step for the same key; a run that reaches the locking step while another
\* transaction is past it for that key gets the retry signal, and a run that
\* got the retry signal there has executed none of the steps after it.
C2_MutualExclusion ==
    /\ [](\A w1 \in Workers : \A w2 \in Workers \ {w1} :
            \A i \in 1..Len(stack[w1]) : \A j \in 1..Len(stack[w2]) :
               ~ ( /\ stack[w1][i].locked
                   /\ stack[w2][j].locked
                   /\ stack[w1][i].external_id = stack[w2][j].external_id ))
    /\ [](\A w \in Workers : \A i \in 1..Len(stack[w]) :
            LET f == stack[w][i] IN
            (f.exc = RetryableJobError /\ f.nested = 0) =>
               /\ ~f.locked
               /\ f.pc = "DONE"
               /\ f.created = 0 /\ f.updated = 0 /\ f.binds = <<>>
               /\ f.dep = 1)
    /\ [][\A w \in Workers : C2_Refused(w)]_vars

C2_Witness ==
    \E w1 \in Workers : \E w2 \in Workers \ {w1} :
        /\ stack[w1] # <<>> /\ stack[w2] # <<>>
        /\ Top(w1).locked
        /\ Top(w2).exc = RetryableJobError
        /\ Top(w1).external_id = Top(w2).external_id

\* the up-to-date check of a non-forced run, as one step of worker w
C3_Check(w) ==
    (At(w, "UPTODATE_CHECK") /\ ~Top(w).force /\ stack'[w] # stack[w]) =>
        LET M == Top(w).odoo_record.write_date
            b == Top(w)'.found
            skipped == Top(w)'.pc = "DONE" /\ Top(w)'.result = AlreadyUpToDate
        IN  /\ skipped <=> ( /\ M \notin {NoAttr, False}
                             /\ b # 0
                             /\ View(w)[b].sync # NoDate
                             /\ from_string(View(w)[b].sync) > M )
            /\ ~skipped => Top(w)'.pc = "LOCKING"

\* C3: a non-forced run that reaches the up-to-date check ends with the
\* "already up to date" outcome if and only if the raw record has a
\* last-modified timestamp M, a Binding was found, it has a sync_date S, and
\* S > M; otherwise (no timestamp, no binding, no sync_date, S = M, S < M) it
\* goes on to the locking step.
C3_UpToDateIff == [][\A w \in Workers : C3_Check(w)]_vars

C3_Witness ==
    \E w \in Workers :
        /\ stack[w] # <<>>
        /\ ~Top(w).force
        /\ Top(w).result = AlreadyUpToDate
        /\ Len(stack[w]) = 1

\* the up-to-date check of a forced run, as one step of worker w
C4_Check(w) ==
    (At(w, "UPTODATE_CHECK") /\ Top(w).force /\ stack'[w] # stack[w]) =>
        Top(w)'.pc = "LOCKING"

\* C4: a forced run never ends with the "already up to date" outcome; at the
\* up-to-date check it always goes on to the locking step.
C4_ForceNeverUpToDate ==
    /\ [](\A w \in Workers : \A i \in 1..Len(stack[w]) :
            stack[w][i].force => stack[w][i].result # AlreadyUpToDate)
    /\ [][\A w \in Workers : C4_Check(w)]_vars

\* a forced run wrote and bound a binding whose committed sync_date is
\* strictly greater than the record's last-modified timestamp
C4_Witness ==
    \E w \in Workers :
        /\ stack[w] # <<>>
        /\ LET f == Top(w) IN
           /\ f.force /\ Completed(f)
           /\ f.updated = 1 /\ f.binds # <<>>
           /\ f.found \in DOMAIN bindings
           /\ bindings[f.found].sync # NoDate
           /\ f.odoo_record.write_date \notin {NoAttr, False}
           /\ from_string(bindings[f.found].sync) > f.odoo_record.write_date

\* C5: a run performs at most one write; a run that reached the bind step or
\* completed has performed exactly one, an update of the binding its lookup
\* found if it found one, and otherwise the creation of one new binding.
C5_ExactlyOneWrite ==
    \A w \in Workers : \A i \in 1..Len(stack[w]) :
        LET f == stack[w][i] IN
        /\ f.created + f.updated <= 1
        /\ (f.pc = "BINDING" \/ Completed(f)) =>
              /\ f.created + f.updated = 1
              /\ f.updated = 1 <=> f.found # 0
        /\ f.updated = 1 => f.binding = f.found
        /\ f.created = 1 =>
              /\ f.binding # 0
              /\ f.binding \in DOMAIN txlog[w]
              /\ f.binding \notin DOMAIN bindings

C5_Witness ==
    \E w \in Workers :
        /\ stack[w] # <<>>
        /\ Completed(Top(w))
        /\ Top(w).updated = 1
        /\ Top(w).created = 0

\* C6: a run that has written (created or updated) and ended has called
\* bind exactly once, with its external id and its binding, so the binding is
\* linked and its sync_date set; no run calls bind twice.
C6_BindOnce ==
    \A w \in Workers : \A i \in 1..Len(stack[w]) :
        LET f == stack[w][i] IN
        /\ Len(f.binds) <= 1
        /\ (f.pc = "DONE" /\ f.created + f.updated >= 1) =>
              /\ f.binds = << <<f.external_id, f.binding>> >>
              /\ View(w)[f.binding].ext = f.external_id
              /\ View(w)[f.binding].sync # NoDate

C6_Witness ==
    \E w \in Workers :
        /\ stack[w] # <<>>
        /\ Top(w).pc = "DONE"
        /\ Top(w).updated = 1
        /\ Len(Top(w).binds) = 1

\* C7: after a run that completes, exactly one Binding exists for its
\* external id and that binding's sync_date is at or after the run's start.
C7_OneFreshBinding ==
    \A w \in Workers : \A i \in 1..Len(stack[w]) :
        LET f == stack[w][i] IN
        Completed(f) =>
            /\ Cardinality(Linked(View(w), f.external_id)) = 1
            /\ \A b \in Linked(View(w), f.external_id) :
                  /\ View(w)[b].sync # NoDate
                  /\ from_string(View(w)[b].sync) >= f.started

\* every sync_date set in table old is set, and not earlier, in table new
C8_Keeps(old, new) ==
    \A b \in DOMAIN old :
        old[b].sync # NoDate =>
            /\ b \in DOMAIN new
            /\ new[b].sync # NoDate
            /\ from_string(new[b].sync) >= from_string(old[b].sync)

\* C8: the sync_date of a binding, once set, never decreases: not in the
\* committed table, and not in what a running transaction sees.
C8_SyncDateMonotone ==
    [][ /\ C8_Keeps(bindings, bindings')
        /\ \A w \in Workers :
              stack'[w] # <<>> => C8_Keeps(View(w), View(w)') ]_vars

\* a run is about to commit a later sync_date over a committed one
C8_Witness ==
    \E w \in Workers :
        /\ stack[w] # <<>>
        /\ Completed(Top(w))
        /\ LET b == Top(w).binding IN
           /\ b \in DOMAIN bindings
           /\ bindings[b].sync # NoDate
           /\ from_string(View(w)[b].sync) > from_string(bindings[b].sync)

\* C9: a run the must-skip hook stopped returns the hook's reason; each early
\* exit returns a non-empty string and only a run that did all its steps
\* returns nothing.
C9_OutcomeStrings ==
    \A w \in Workers : \A i \in 1..Len(stack[w]) :
        LET f == stack[w][i] IN
        (f.pc = "DONE" /\ f.exc = None) =>
            /\ Truthy(f.skip) => f.result = f.skip
            /\ EndedEarly(f) => Truthy(f.result)
            /\ f.result = None => f.binds # <<>>

\* a step of worker w before the locking step of its run
C10_Early(w) ==
    (/\ stack[w] # <<>>
     /\ Top(w).pc \in {"FETCHING", "SKIP_CHECK", "UPTODATE_CHECK"}
     /\ stack'[w] # stack[w]) =>
        UNCHANGED <<bindings, txlog, held, nextId>>

\* C10: a run that ended early wrote nothing, bound nothing, imported no
\* dependency and took no lock; its steps up to the exit leave the table,
\* the transaction's writes and the locks as they were.
C10_EarlyExitNoEffect ==
    /\ [](\A w \in Workers : \A i \in 1..Len(stack[w]) :
            LET f == stack[w][i] IN
            EndedEarly(f) =>
                /\ f.created = 0 /\ f.updated = 0 /\ f.binds = <<>>
                /\ f.nested = 0 /\ f.dep = 1
                /\ ~f.locked
                /\ i = 1 => (txlog[w] = NoRows /\ held[w] = {}))
    /\ [][\A w \in Workers : C10_Early(w)]_vars

\* a dependency import ended early inside a parent that holds its lock
C10_Witness ==
    \E w \in Workers :
        /\ Len(stack[w]) = 2
        /\ EndedEarly(Top(w))
        /\ Top(w).result = AlreadyUpToDate
        /\ stack[w][1].locked

\* the return of a nested run into _import_dependency, as a step of worker w
C11_Return(w) ==
    (Len(stack[w]) > 1 /\ Top(w).pc = "DONE" /\ stack'[w] # stack[w]) =>
        LET child == Top(w)
            parent == stack[w][Len(stack[w]) - 1]
            after == Top(w)'
        IN  /\ Len(stack'[w]) = Len(stack[w]) - 1
            /\ child.exc \in {None, NothingToDoJob} =>
                  /\ after.exc = None
                  /\ after.pc = "DEPENDENCIES"
                  /\ after.dep = parent.dep + 1
            /\ child.exc \notin {None, NothingToDoJob} =>
                  /\ after.exc = child.exc
                  /\ after.pc = "DONE"
                  /\ after.created = 0 /\ after.updated = 0 /\ after.binds = <<>>

Calls(f, name, arg) == {k \in 1..Len(f.steps) : f.steps[k] = <<name, arg>>}

\* frame f imports dependency d only when it is unbound (always = False)
C12_WhenUnbound(f, d) ==
    \A k \in 1..Len(deps[f.external_id]) :
        deps[f.external_id][k].external_id = d => ~deps[f.external_id][k].always

C13_Nested(w) ==
    (/\ Len(stack[w]) > 1
     /\ Top(w).pc = "DONE"
     /\ Top(w).exc = RetryableJobError
     /\ stack'[w] # stack[w]) =>
        /\ Len(stack'[w]) = Len(stack[w]) - 1
        /\ Top(w)'.exc = RetryableJobError
        /\ Top(w)'.pc = "DONE"

\* the end of a unit of work whose run ended with the retry signal, as a step
\* of worker w
C13_End(w) ==
    (/\ Len(stack[w]) = 1
     /\ Top(w).exc = RetryableJobError
     /\ stack'[w] # stack[w]) =>
        /\ bindings' = bindings
        /\ txlog'[w] = NoRows
        /\ held'[w] = {}
        /\ \/ stack'[w] = <<>>
           \/ /\ Len(stack'[w]) = 1
              /\ Top(w)'.external_id = Top(w).external_id
              /\ Top(w)'.pc = "FETCHING"
              /\ Top(w)'.steps = <<>>
              /\ Top(w)'.exc = None

\* C13: a failed lock, of the run's own key or of a dependency's key in a
\* nested run, ends the whole unit of work with the retry signal: the signal
\* goes up through every parent run, the transaction ends with the committed
\* table unchanged and all writes of the unit of work dropped (the parent's
\* and those of dependencies it had imported), and the job executed again
\* starts at the fetch step; the table changes only when a unit of work
\* whose run raised nothing ends.
C13_RetryAbortsAll ==
    /\ [][\A w \in Workers : C13_Nested(w) /\ C13_End(w)]_vars
    /\ [][bindings' # bindings =>
             \E w \in Workers :
                /\ Len(stack[w]) = 1
                /\ Top(w).pc = "DONE"
                /\ Top(w).exc = None
                /\ stack'[w] = <<>>
                /\ bindings' = txlog[w] @@ bindings]_vars
    /\ [](\A w \in Workers : \A i \in 1..Len(stack[w]) :
            stack[w][i].exc = RetryableJobError =>
               /\ stack[w][i].pc = "DONE"
               /\ stack[w][i].created = 0 /\ stack[w][i].updated = 0
               /\ stack[w][i].binds = <<>>)

\* the lock of the second dependency failed in its nested run after the
\* first dependency was imported in the same unit of work
C13_Witness ==
    \E w \in Workers :
        /\ Len(stack[w]) = 1
        /\ Top(w).exc = RetryableJobError
        /\ Top(w).nested = 2
        /\ Calls(Top(w), "run completed", 2) # {}
        /\ txlog[w] # NoRows

\* a step of worker w whose innermost run has failed its validation
C14_Propagated(w) ==
    (/\ stack[w] # <<>>
     /\ Top(w).exc = InvalidDataError
     /\ stack'[w] # stack[w]) =>
        /\ bindings' = bindings
        /\ Len(stack[w]) > 1 =>
              /\ Len(stack'[w]) = Len(stack[w]) - 1
              /\ Top(w)'.exc = InvalidDataError
              /\ Top(w)'.pc = "DONE"
        /\ Len(stack[w]) = 1 => (stack'[w] = <<>> /\ txlog'[w] = NoRows)

\* C14: on both branches _validate_data is called right before the write; a
\* run whose validation failed has made no create, no update and no bind,
\* has not called _after_import, wrote no row, and ends with the exception,
\* not with a return value: the exception becomes its caller's.
C14_ValidateBeforeWrite ==
    /\ [](\A w \in Workers : \A i \in 1..Len(stack[w]) :
            LET f == stack[w][i] IN
            /\ \A k \in 1..Len(f.steps) :
                  f.steps[k][1] \in {"model.create", "binding.write"} =>
                     /\ k > 1
                     /\ f.steps[k - 1] = <<"_validate_data", 0>>
            /\ (f.exc = InvalidDataError /\ f.pc = "DONE"
                    /\ f.steps[Len(f.steps)] = <<"_validate_data", 0>>) =>
                  /\ f.created = 0 /\ f.updated = 0 /\ f.binds = <<>>
                  /\ \A k \in 1..Len(f.steps) :
                        f.steps[k][1] \notin {"model.create", "binding.write",
                                              "binder.bind", "_after_import"}
                  /\ f.result = None
                  /\ f.binding = f.found
                  /\ f.found # 0 =>
                        (f.found \in DOMAIN txlog[w] =>
                            txlog[w][f.found].data # _update_data(f.odoo_record)))
    /\ [][\A w \in Workers : C14_Propagated(w)]_vars

\* the validation failed on the update branch
C14_Witness ==
    \E w \in Workers :
        /\ stack[w] # <<>>
        /\ Top(w).exc = InvalidDataError
        /\ Top(w).found # 0
        /\ Top(w).steps[Len(Top(w).steps)] = <<"_validate_data", 0>>

\* C15: after a run stopped between its write and bind with the write kept,
\* the Binding it wrote exists, and a later run for the same external id
\* finds it at its lookup, is not skipped as up to date and updates it
\* instead of creating a second Binding, on the create branch as on the
\* update branch.  (Stated for interrupted runs without force and later
\* runs that read a last-modified timestamp not earlier than theirs.)
C15_CrashRecoverable ==
    \A c \in crashed :
        /\ c.binding \in DOMAIN bindings
        /\ \A w \in Workers : \A i \in 1..Len(stack[w]) :
              LET f == stack[w][i] IN
              (/\ f.external_id = c.external_id
               /\ ~c.force
               /\ f.pc \in {"LOCKING", "DEPENDENCIES", "MAPPING", "BINDING", "DONE"}
               /\ f.odoo_record.id # 0
               /\ ~Truthy(f.skip)
               /\ f.odoo_record.write_date = c.write_date) =>
                  /\ f.found = c.binding
                  /\ f.result # AlreadyUpToDate
                  /\ f.created = 0

\* the batch importer has called _import_record for the first ids returned
\* by the search, once each and in their order
C16_InOrder == batch.calls = SubSeq(batch.record_ids, 1, Len(batch.calls))

\* C16: BatchImporter.run calls _import_record once for each id returned by
\* adapter.search, in the order returned, and has called it for all of them
\* when it returns; under the direct strategy the import of an id starts
\* after the import of the id before it has returned and is over before the
\* next one starts, and the run returns after the last one is over.
C16_DirectInOrder ==
    /\ [](/\ C16_InOrder
          /\ (batch.pc \in {"DONE", "ENDED"} /\ batch.exc = None) =>
                batch.calls = batch.record_ids
          /\ batch.strategy = "direct" =>
                /\ \A k \in 1..Len(batch.log) :
                      batch.log[k] = << IF k % 2 = 1 THEN "start" ELSE "end",
                                        batch.record_ids[(k + 1) \div 2] >>
                /\ stack[BatchWorker] # <<>> =>
                      /\ batch.pc = "IMPORTING"
                      /\ Len(batch.log) = 2 * batch.i - 1
                      /\ stack[BatchWorker][1].external_id = batch.record_ids[batch.i]
                /\ (batch.pc \in {"DONE", "ENDED"} /\ batch.exc = None) =>
                      Len(batch.log) = 2 * Len(batch.record_ids)
                /\ queue = <<>>)
    /\ [][(batch.strategy = "direct" /\ Len(batch'.log) > Len(batch.log)) =>
             IF Len(batch.log) % 2 = 0
             THEN stack[BatchWorker] = <<>> /\ Len(stack'[BatchWorker]) = 1
                  /\ Top(BatchWorker)'.pc = "FETCHING"
             ELSE Completed(Top(BatchWorker)) \/ EndedEarly(Top(BatchWorker))]_vars

\* a direct batch of two different ids returned after both imports
C16_Witness ==
    /\ batch.strategy = "direct"
    /\ batch.pc = "DONE"
    /\ batch.exc = None
    /\ Len(batch.record_ids) = 2
    /\ batch.record_ids[1] # batch.record_ids[2]
    /\ Len(batch.log) = 4
    /\ DOMAIN txlog[BatchWorker] # {}

\* C17: under the delayed strategy every _import_record call enqueues one
\* job for its id and starts nothing: the jobs enqueued are those not yet
\* started plus those started, one per id in the order of the search, all of
\* them when the run returns; no step of the batch run touches a run, the
\* table or a lock.
C17_DelayedEnqueues ==
    /\ [](batch.strategy = "delayed" =>
            /\ C16_InOrder
            /\ batch.log = <<>>
            /\ Len(queue) + jobs = Len(batch.calls)
            /\ jobs = 0 => queue = batch.calls
            /\ batch.pc \in {"DONE", "ENDED"} =>
                  /\ batch.calls = batch.record_ids
                  /\ batch.exc = None)
    /\ [][(batch.strategy = "delayed" /\ batch' # batch) =>
             UNCHANGED <<stack, bindings, txlog, held, jobs>>]_vars

\* the batch run returned before any enqueued import had started, and the
\* import enqueued second was started while the one enqueued first waits
C17_Witness ==
    /\ batch.strategy = "delayed"
    /\ batch.pc \in {"DONE", "ENDED"}
    /\ batch.unstarted
    /\ Len(batch.record_ids) = 2
    /\ batch.record_ids[1] # batch.record_ids[2]
    /\ queue = <<batch.record_ids[1]>>
    /\ \E w \in Workers :
          stack[w] # <<>> /\ Top(w).external_id = batch.record_ids[2]

\* the place of a call in the order of the steps of run
C18_Rank(name) ==
    CASE name = "advisory_lock_or_retry" -> 1
      [] name = "_before_import" -> 2
      [] name \in {"importer.run", "run completed", "run ended"} -> 3
      [] name = "_map_data" -> 4
      [] name = "_validate_data" -> 5
      [] name \in {"model.create", "binding.write"} -> 6
      [] name = "binder.bind" -> 7
      [] name = "_after_import" -> 8

\* C18: the calls of a run past its early exits are in this order: the
\* advisory lock, _before_import, the dependency imports (each nested run
\* back before the next call), the mapping, the validation and the create or
\* update, bind, _after_import with the binding that was bound; each but the
\* dependency imports at most once, and all of them in a run that completes.
\* So no dependency import starts after the write, and bind never precedes it.
C18_StepOrder ==
    \A w \in Workers : \A i \in 1..Len(stack[w]) :
        LET f == stack[w][i]
            n == Len(f.steps)
        IN  /\ \A k \in 1..n : \A l \in 1..n :
                  k < l =>
                     \/ C18_Rank(f.steps[k][1]) < C18_Rank(f.steps[l][1])
                     \/ C18_Rank(f.steps[k][1]) = 3 /\ C18_Rank(f.steps[l][1]) = 3
            /\ \A k \in 1..n :
                  f.steps[k][1] = "importer.run" =>
                     IF k = n
                     THEN i < Len(stack[w]) \/ f.exc # None
                     ELSE /\ f.steps[k + 1][1] \in {"run completed", "run ended"}
                          /\ f.steps[k + 1][2] = f.steps[k][2]
            /\ \A k \in 1..n :
                  f.steps[k][1] \in {"run completed", "run ended"} =>
                     k > 1 /\ f.steps[k - 1] = <<"importer.run", f.steps[k][2]>>
            /\ (n > 0) <=> (f.locked \/ f.pc \notin
                                 {"FETCHING", "SKIP_CHECK", "UPTODATE_CHECK", "LOCKING", "DONE"})
            /\ f.locked => /\ f.steps[1] = <<"advisory_lock_or_retry", f.external_id>>
                           /\ f.steps[2] = <<"_before_import", 0>>
            /\ Completed(f) =>
                  /\ {1, 2, 4, 5, 6, 7, 8} \subseteq {C18_Rank(f.steps[k][1]) : k \in 1..n}
                  /\ f.steps[n] = <<"_after_import", f.binding>>
                  /\ f.steps[n - 1] = <<"binder.bind", f.binding>>
                  /\ f.steps[n - 2][2] = f.binding

\* a run completed after the nested run of its dependency completed
C18_Witness ==
    \E w \in Workers :
        /\ Len(stack[w]) = 1
        /\ Completed(Top(w))
        /\ Calls(Top(w), "run completed", 2) # {}
        /\ Top(w).created = 1

\* one _import_dependency call, as a step of worker w
C19_Call(w) ==
    (/\ At(w, "DEPENDENCIES")
     /\ Top(w).dep <= Len(deps[Top(w).external_id])
     /\ stack'[w] # stack[w]) =>
        LET d == deps[Top(w).external_id][Top(w).dep]
            bound == Linked(View(w), d.external_id) # {}
            invoked == \/ Len(stack'[w]) = Len(stack[w]) + 1
                       \/ Top(w)'.exc = RecursionError
        IN  /\ invoked <=> (d.external_id # 0 /\ (d.always \/ ~bound))
            /\ Len(stack'[w]) = Len(stack[w]) + 1 =>
                  /\ Top(w)'.external_id = d.external_id
                  /\ ~Top(w)'.force
                  /\ Top(w)'.pc = "FETCHING"
                  /\ stack'[w][Len(stack[w])].steps =
                        Append(Top(w).steps, <<"importer.run", d.external_id>>)
            /\ ~invoked =>
                  /\ Len(stack'[w]) = Len(stack[w])
                  /\ Top(w)'.dep = Top(w).dep + 1
                  /\ Top(w)'.steps = Top(w).steps

\* C19: _import_dependency invokes the nested run if and only if the
\* external id is not empty and (always is set or the binder has no Binding
\* for it); the nested run is never forced, so a nested run whose binding has
\* a sync_date strictly greater than the record's last-modified timestamp
\* ends as up to date, without write and without bind, also with always set.
C19_ImportIffNeeded ==
    /\ [][\A w \in Workers : C19_Call(w)]_vars
    /\ [](\A w \in Workers : \A i \in 2..Len(stack[w]) :
            LET f == stack[w][i] IN
            /\ ~f.force
            /\ f.result = AlreadyUpToDate =>
                  /\ f.created = 0 /\ f.updated = 0 /\ f.binds = <<>>
                  /\ f.steps = <<>>
            /\ (/\ f.pc \in {"LOCKING", "DEPENDENCIES", "MAPPING", "BINDING"}
                /\ f.found # 0
                /\ f.odoo_record.write_date \notin {NoAttr, False}) =>
                  \/ f.found \notin DOMAIN bindings
                  \/ bindings[f.found].sync = NoDate
                  \/ from_string(bindings[f.found].sync) <= f.odoo_record.write_date)

\* a dependency declared with always = True was found up to date by its
\* nested run, which wrote and bound nothing
C19_Witness ==
    \E w \in Workers :
        /\ Len(stack[w]) = 2
        /\ deps[stack[w][1].external_id][stack[w][1].dep].always
        /\ Top(w).result = AlreadyUpToDate
        /\ Top(w).found # 0
        /\ txlog[w] = NoRows

\* C20: every run that starts ends, and the recursion of the dependency
\* imports ends by itself under every declaration: no run is nested in a run
\* for the same record (a record being imported is not imported again as its
\* own transitive dependency), so no recursion is cut by the interpreter.
C20_Terminates ==
    /\ \A w \in Workers : (stack[w] # <<>>) ~> (stack[w] = <<>>)
    /\ [](\A w \in Workers : \A i \in 1..Len(stack[w]) :
            /\ stack[w][i].exc # RecursionError
            /\ \A j \in 1..Len(stack[w]) :
                  i < j => stack[w][i].external_id # stack[w][j].external_id)

====
